---- MODULE Spec2Model ----
(***************************************************************************)
(* postcss-lynx: the plugin of src/unnamed/part_002 (the selector-scoped   *)
(* version of src/src/index.ts).                                           *)
(*                                                                         *)
(* A stylesheet is the sequence of its declarations in document order,     *)
(* each with the selector of its parent rule (NoSelector when the parent   *)
(* is not a rule).  A value is a sequence of lexical tokens: "var(", ")",  *)
(* ",", " ", the names "--a".., the literals "x", "y" and the function     *)
(* opener "f(".  No token is a prefix of another, so a substring of the    *)
(* text that starts at a token boundary is a subsequence of tokens, and    *)
(* the regular expression and String.replace of the source are modelled    *)
(* on tokens exactly as they act on characters.                            *)
(***************************************************************************)
EXTENDS Integers, Sequences, FiniteSets, TLC

\* ------------------------------------------------------------------ bounds
MaxIter == 4        \* options.maxIterations ranges over 1..MaxIter
MaxChain == 3       \* longest single-scope stylesheet of the chain inputs
MaxRuns == 2        \* stylesheets one plugin instance processes in a row

\* ------------------------------------------------------------ vocabulary
VAR == "var("
RP == ")"
COMMA == ","
SP == " "

NoSelector == "<no selector>"

\* names that start with the two characters "--"
DashNames == {"--a", "--b", "--c", "--d", "--u"}

\* decl.prop.startsWith("--")
StartsWithDashDash(prop) == prop \in DashNames

PROPERTIES_TO_REMOVE == {"color-scheme", "stroke-dasharray", "stroke-dashoffset"}

\* ------------------------------------------------------- string functions
RECURSIVE RunLen(_, _, _)
\* number of consecutive tokens of v from position i that are not in stop
\* (a greedy character class [^...]+)
RunLen(v, i, stop) ==
    IF i > Len(v) \/ v[i] \in stop THEN 0 ELSE 1 + RunLen(v, i + 1, stop)

RECURSIVE TrimLeft(_)
TrimLeft(s) == IF s /= <<>> /\ Head(s) = SP THEN TrimLeft(Tail(s)) ELSE s

RECURSIVE TrimRight(_)
TrimRight(s) ==
    IF s /= <<>> /\ s[Len(s)] = SP THEN TrimRight(SubSeq(s, 1, Len(s) - 1)) ELSE s

\* String.prototype.trim
Trim(s) == TrimRight(TrimLeft(s))

\* value.includes("var(--")
IncludesVarDash(v) ==
    \E i \in 1..(Len(v) - 1) : v[i] = VAR /\ v[i + 1] \in DashNames

NoMatch == [ok |-> FALSE, len |-> 0, text |-> <<>>, g1 |-> <<>>, has2 |-> FALSE, g2 |-> <<>>]

\* /var\(([^,)]+)(?:,([^)]+))?\)/ anchored at position i of v
MatchAt(v, i) ==
    IF i > Len(v) \/ v[i] /= VAR THEN NoMatch
    ELSE LET n == RunLen(v, i + 1, {COMMA, RP})
             k == i + 1 + n
         IN  IF n = 0 \/ k > Len(v) THEN NoMatch
             ELSE IF v[k] = RP
                  THEN [ok |-> TRUE, len |-> k - i + 1, text |-> SubSeq(v, i, k),
                        g1 |-> SubSeq(v, i + 1, k - 1), has2 |-> FALSE, g2 |-> <<>>]
                  ELSE LET m == RunLen(v, k + 1, {RP})
                           e == k + 1 + m
                       IN  IF m = 0 \/ e > Len(v) THEN NoMatch
                           ELSE [ok |-> TRUE, len |-> e - i + 1, text |-> SubSeq(v, i, e),
                                 g1 |-> SubSeq(v, i + 1, k - 1), has2 |-> TRUE,
                                 g2 |-> SubSeq(v, k + 1, e - 1)]

RECURSIVE ExecAll(_, _)
\* the successive results of varRegex.exec(testValue) (flag g) from position i
ExecAll(v, i) ==
    IF i > Len(v) THEN <<>>
    ELSE LET m == MatchAt(v, i)
         IN  IF m.ok THEN <<m>> \o ExecAll(v, i + m.len) ELSE ExecAll(v, i + 1)

RECURSIVE IndexOf(_, _, _)
\* first position >= i where pat occurs in s, 0 when there is none
IndexOf(s, pat, i) ==
    IF i + Len(pat) - 1 > Len(s) THEN 0
    ELSE IF SubSeq(s, i, i + Len(pat) - 1) = pat THEN i
    ELSE IndexOf(s, pat, i + 1)

\* a replace that finds nothing to replace
ReplaceNothing(s, pat, rep) == s

\* s.replace(pat, rep) with a string pattern: the first occurrence only
Replace(s, pat, rep) ==
    LET i == IndexOf(s, pat, 1)
    IN  IF i = 0 THEN s
        ELSE SubSeq(s, 1, i - 1) \o rep \o SubSeq(s, i + Len(pat), Len(s))

\* ---------------------------------------------------------- Map functions
\* a Map is the sequence of its entries in insertion order
MapHas(m, key) == \E i \in 1..Len(m) : m[i].key = key

MapIndex(m, key) == CHOOSE i \in 1..Len(m) : m[i].key = key

MapGet(m, key) == m[MapIndex(m, key)].val

MapSet(m, key, val) ==
    IF MapHas(m, key)
    THEN [m EXCEPT ![MapIndex(m, key)].val = val]
    ELSE Append(m, [key |-> key, val |-> val])

\* the key a trimmed capture group denotes: a property name is one token
KeyOf(name) == IF Len(name) = 1 THEN name[1] ELSE "<no property>"

\* ------------------------------------------------------------ resolution
\* a lookup that takes the first scope of the table that defines the name,
\* the scope being resolved having no priority
SubstitutionFirstScopeOfTable(svm, selector, m) ==
    LET varName == KeyOf(Trim(m.g1))
        fallback == IF m.has2 THEN Trim(m.g2) ELSE <<>>
        having == {o \in 1..Len(svm) : MapHas(svm[o].val, varName)}
        first == CHOOSE o \in having : \A q \in having : o <= q
    IN  IF having /= {}
        THEN [madeChange |-> TRUE, text |-> MapGet(svm[first].val, varName)]
        ELSE IF fallback /= <<>>
        THEN [madeChange |-> TRUE, text |-> fallback]
        ELSE [madeChange |-> FALSE, text |-> <<>>]

\* a lookup in the other scopes that takes the last scope defining the name
SubstitutionLastOtherScope(svm, selector, m) ==
    LET varName == KeyOf(Trim(m.g1))
        fallback == IF m.has2 THEN Trim(m.g2) ELSE <<>>
        varMap == MapGet(svm, selector)
        others == {o \in 1..Len(svm) :
                     svm[o].key /= selector /\ MapHas(svm[o].val, varName)}
        last == CHOOSE o \in others : \A q \in others : o >= q
    IN  IF MapHas(varMap, varName)
        THEN [madeChange |-> TRUE, text |-> MapGet(varMap, varName)]
        ELSE IF others /= {}
        THEN [madeChange |-> TRUE, text |-> MapGet(svm[last].val, varName)]
        ELSE IF fallback /= <<>>
        THEN [madeChange |-> TRUE, text |-> fallback]
        ELSE [madeChange |-> FALSE, text |-> <<>>]

\* a lookup that counts a reference it cannot resolve as a change, putting
\* the text of the reference back
SubstitutionFlaggingUndefined(svm, selector, m) ==
    LET varName == KeyOf(Trim(m.g1))
        fallback == IF m.has2 THEN Trim(m.g2) ELSE <<>>
        varMap == MapGet(svm, selector)
        others == {o \in 1..Len(svm) :
                     svm[o].key /= selector /\ MapHas(svm[o].val, varName)}
        first == CHOOSE o \in others : \A q \in others : o <= q
    IN  IF MapHas(varMap, varName)
        THEN [madeChange |-> TRUE, text |-> MapGet(varMap, varName)]
        ELSE IF others /= {}
        THEN [madeChange |-> TRUE, text |-> MapGet(svm[first].val, varName)]
        ELSE IF fallback /= <<>>
        THEN [madeChange |-> TRUE, text |-> fallback]
        ELSE [madeChange |-> TRUE, text |-> m.text]

\* what one match of the resolution loop is replaced by (part_002 127-160);
\* a null fallback and an empty one are both falsy and both are <<>> here
Substitution(svm, selector, m) ==
    LET varName == KeyOf(Trim(m.g1))
        fallback == IF m.has2 THEN Trim(m.g2) ELSE <<>>
        varMap == MapGet(svm, selector)
        others == {o \in 1..Len(svm) :
                     svm[o].key /= selector /\ MapHas(svm[o].val, varName)}
        first == CHOOSE o \in others : \A q \in others : o <= q
    IN  IF MapHas(varMap, varName)
        THEN [madeChange |-> TRUE, text |-> MapGet(varMap, varName)]
        ELSE IF others /= {}
        THEN [madeChange |-> TRUE, text |-> MapGet(svm[first].val, varName)]
        ELSE IF fallback /= <<>>
        THEN [madeChange |-> TRUE, text |-> fallback]
        ELSE [madeChange |-> FALSE, text |-> <<>>]

RECURSIVE ApplyMatches(_, _, _, _, _, _)
\* the while loop over varRegex.exec(testValue), from match number k
ApplyMatches(svm, selector, ms, k, newValue, madeChange) ==
    IF k > Len(ms) THEN [newValue |-> newValue, madeChange |-> madeChange]
    ELSE LET r == Substitution(svm, selector, ms[k])
         IN  IF r.madeChange
             THEN ApplyMatches(svm, selector, ms, k + 1,
                               Replace(newValue, ms[k].text, r.text), TRUE)
             ELSE ApplyMatches(svm, selector, ms, k + 1, newValue, madeChange)

\* a resolution that counts a change only when the text changed
ResolveValueComparingText(svm, selector, value) ==
    LET r == ApplyMatches(svm, selector, ExecAll(value, 1), 1, value, FALSE)
    IN  [newValue |-> r.newValue, madeChange |-> r.newValue /= value]

\* the body of `if (value.includes("var(--"))` for one property value
ResolveValue(svm, selector, value) ==
    ApplyMatches(svm, selector, ExecAll(value, 1), 1, value, FALSE)

RECURSIVE PassFromLastOnly(_, _, _, _)
\* a pass whose resolvedSomething is overwritten by each property
PassFromLastOnly(svm, selector, p, resolvedSomething) ==
    LET varMap == MapGet(svm, selector)
    IN  IF p > Len(varMap)
        THEN [svm |-> svm, resolvedSomething |-> resolvedSomething]
        ELSE LET value == varMap[p].val
                 r == ResolveValue(svm, selector, value)
             IN  IF IncludesVarDash(value) /\ r.madeChange
                 THEN PassFromLastOnly(MapSet(svm, selector,
                                              MapSet(varMap, varMap[p].key, r.newValue)),
                                       selector, p + 1, TRUE)
                 ELSE PassFromLastOnly(svm, selector, p + 1, FALSE)

RECURSIVE PassFrom(_, _, _, _)
\* `for (const [prop, value] of varMap.entries())` from entry number p on:
\* one pass over a scope, each property seeing the values set before it
PassFrom(svm, selector, p, resolvedSomething) ==
    LET varMap == MapGet(svm, selector)
    IN  IF p > Len(varMap)
        THEN [svm |-> svm, resolvedSomething |-> resolvedSomething]
        ELSE LET value == varMap[p].val
                 r == ResolveValue(svm, selector, value)
             IN  IF IncludesVarDash(value) /\ r.madeChange
                 THEN PassFrom(MapSet(svm, selector,
                                      MapSet(varMap, varMap[p].key, r.newValue)),
                               selector, p + 1, TRUE)
                 ELSE PassFrom(svm, selector, p + 1, resolvedSomething)

\* getSelector(decl)
GetSelector(decl) == IF decl.parent /= NoSelector THEN decl.parent ELSE "unknown"

\* the body of the Declaration visitor (part_002 93-104)
Collect(svm, decl) ==
    LET selector == GetSelector(decl)
        withScope == IF MapHas(svm, selector) THEN svm
                     ELSE MapSet(svm, selector, <<>>)
    IN  IF StartsWithDashDash(decl.prop)
        THEN MapSet(withScope, selector,
                    MapSet(MapGet(withScope, selector), decl.prop, decl.value))
        ELSE svm

\* ------------------------------------------------------------ tree helpers
\* convertDataAttrToClass on the selectors of the model: the only one with
\* an attribute part is [data-m=d], attrName data-m, attrValue d
ConvertDataAttrToClass(selector) ==
    IF selector = "[data-m=d]" THEN "[data-m=d], .data-m__d" ELSE selector

RECURSIVE RemovePropsColorSchemeOnly(_)
\* a removal that knows color-scheme only
RemovePropsColorSchemeOnly(t) ==
    IF t = <<>> THEN <<>>
    ELSE IF Head(t).prop = "color-scheme" THEN RemovePropsColorSchemeOnly(Tail(t))
    ELSE <<Head(t)>> \o RemovePropsColorSchemeOnly(Tail(t))

RECURSIVE RemoveProps(_)
\* result.root.walkDecls: decl.remove() for the listed properties
RemoveProps(t) ==
    IF t = <<>> THEN <<>>
    ELSE IF Head(t).prop \in PROPERTIES_TO_REMOVE THEN RemoveProps(Tail(t))
    ELSE <<Head(t)>> \o RemoveProps(Tail(t))

\* result.root.walkRules: rule.selector = convertedSelector
ConvertRules(t) ==
    [i \in 1..Len(t) |->
        IF t[i].parent = NoSelector THEN t[i]
        ELSE [t[i] EXCEPT !.parent = ConvertDataAttrToClass(t[i].parent)]]

\* a write-back that also inlines the references of style declarations
WriteBackTreeInliningStyles(t, svm) ==
    [i \in 1..Len(t) |->
        LET selector == GetSelector(t[i])
        IN  IF MapHas(svm, selector)
            THEN [t[i] EXCEPT !.value = ResolveValue(svm, selector, t[i].value).newValue]
            ELSE t[i]]

\* the write-back walkDecls (part_002 179-191)
WriteBackTree(t, svm) ==
    [i \in 1..Len(t) |->
        LET selector == GetSelector(t[i])
        IN  IF StartsWithDashDash(t[i].prop) /\ MapHas(svm, selector)
               /\ MapHas(MapGet(svm, selector), t[i].prop)
            THEN LET v == MapGet(MapGet(svm, selector), t[i].prop)
                 IN  [t[i] EXCEPT !.value = IF v /= <<>> THEN v ELSE t[i].value]
            ELSE t[i]]

Warning(kind, varName, selector) ==
    [kind |-> kind, varName |-> varName, selector |-> selector]

CapWarning == Warning("Maximum iterations reached", <<>>, "")

\* an existence test that looks at the declaration's own scope only
ExistsOwnScopeOnly(svm, selector, varName) ==
    MapHas(svm, selector) /\ MapHas(MapGet(svm, selector), varName)

\* the name a match of the diagnostics pass looks up exists in some scope
Exists(svm, selector, varName) ==
    \/ MapHas(svm, selector) /\ MapHas(MapGet(svm, selector), varName)
    \/ \E o \in 1..Len(svm) : MapHas(svm[o].val, varName)

RECURSIVE DeclWarnings(_, _, _, _, _)
\* the warnings of one declaration in the diagnostics pass, from match k
DeclWarnings(svm, decl, ms, k, logWarnings) ==
    IF k > Len(ms) THEN <<>>
    ELSE LET varName == Trim(ms[k].g1)
             fallback == IF ms[k].has2 THEN Trim(ms[k].g2) ELSE <<>>
             selector == GetSelector(decl)
             here == IF ~Exists(svm, selector, KeyOf(varName)) /\ fallback = <<>>
                        /\ logWarnings
                     THEN <<Warning("Undefined variable", varName, selector)>>
                     ELSE <<>>
         IN  here \o DeclWarnings(svm, decl, ms, k + 1, logWarnings)

RECURSIVE TreeWarningsAlways(_, _, _, _)
\* a diagnostics pass that does not look at options.logWarnings
TreeWarningsAlways(svm, t, i, logWarnings) ==
    IF i > Len(t) THEN <<>>
    ELSE (IF IncludesVarDash(t[i].value)
          THEN DeclWarnings(svm, t[i], ExecAll(t[i].value, 1), 1, TRUE)
          ELSE <<>>)
         \o TreeWarningsAlways(svm, t, i + 1, logWarnings)

RECURSIVE TreeWarnings(_, _, _, _)
\* the diagnostics walkDecls (part_002 194-227), from declaration i
TreeWarnings(svm, t, i, logWarnings) ==
    IF i > Len(t) THEN <<>>
    ELSE (IF IncludesVarDash(t[i].value)
          THEN DeclWarnings(svm, t[i], ExecAll(t[i].value, 1), 1, logWarnings)
          ELSE <<>>)
         \o TreeWarnings(svm, t, i + 1, logWarnings)

RECURSIVE CollectAll(_, _, _)
\* the Declaration visitor over the whole tree, from declaration i
CollectAll(svm, t, i) ==
    IF i > Len(t) THEN svm ELSE CollectAll(Collect(svm, t[i]), t, i + 1)

RECURSIVE ResolveScope(_, _, _, _, _)
\* the while loop of one scope, run to its end
ResolveScope(svm, selector, resolved, iters, maxIterations) ==
    IF resolved /\ iters < maxIterations
    THEN LET r == PassFrom(svm, selector, 1, FALSE)
         IN  ResolveScope(r.svm, selector, r.resolvedSomething, iters + 1, maxIterations)
    ELSE svm

RECURSIVE ResolveAll(_, _, _)
\* the for-of loop over the scopes, from scope number s
ResolveAll(svm, s, maxIterations) ==
    IF s > Len(svm) THEN svm
    ELSE ResolveAll(ResolveScope(svm, svm[s].key, TRUE, 0, maxIterations),
                    s + 1, maxIterations)

\* the tree a whole run leaves: prepare, the visitor, the loops, write-back
RunTree(t, maxIterations) ==
    LET prepared == ConvertRules(RemoveProps(t))
    IN  WriteBackTree(prepared,
                      ResolveAll(CollectAll(<<>>, prepared, 1), 1, maxIterations))

RECURSIVE ScopeIterations(_, _, _, _, _)
\* the value of `iterations` when the while loop of one scope ends
ScopeIterations(svm, selector, resolved, iters, maxIterations) ==
    IF resolved /\ iters < maxIterations
    THEN LET r == PassFrom(svm, selector, 1, FALSE)
         IN  ScopeIterations(r.svm, selector, r.resolvedSomething, iters + 1,
                             maxIterations)
    ELSE iters

RECURSIVE LoopWarnings(_, _, _)
\* the cap warnings of the for-of loop over the scopes, from scope number s
LoopWarnings(svm, s, opts) ==
    IF s > Len(svm) THEN <<>>
    ELSE (IF ScopeIterations(svm, svm[s].key, TRUE, 0, opts.maxIterations)
                >= opts.maxIterations /\ opts.logWarnings
          THEN <<CapWarning>> ELSE <<>>)
         \o LoopWarnings(ResolveScope(svm, svm[s].key, TRUE, 0, opts.maxIterations),
                         s + 1, opts)

\* the console.warn calls of a whole run, in order
RunWarnings(t, opts) ==
    LET prepared == ConvertRules(RemoveProps(t))
        collected == CollectAll(<<>>, prepared, 1)
        resolved == ResolveAll(collected, 1, opts.maxIterations)
    IN  LoopWarnings(collected, 1, opts)
        \o TreeWarnings(resolved, WriteBackTree(prepared, resolved), 1, opts.logWarnings)

\* ----------------------------------------------------------------- inputs
Decl(id, parent, prop, value) ==
    [id |-> id, parent |-> parent, prop |-> prop, value |-> value]

Ref(name) == <<VAR, name, RP>>

\* values of the single-scope inputs
ChainValues ==
    { <<"x">>,
      <<>>,
      Ref("--a"), Ref("--b"), Ref("--c"),
      <<"f(", VAR, "--b", RP, SP, "x", RP>>,
      <<VAR, "--a", COMMA, SP, "f(", "y", RP, RP>>,
      <<VAR, "--u", RP, SP, VAR, "--a", RP>> }

ChainProps == <<"--a", "--b", "--c", "--d">>

\* one rule :root declaring the first n properties of ChainProps
ChainInputs ==
    UNION { { [i \in 1..n |-> Decl(i, ":root", ChainProps[i], vals[i])] :
                vals \in [1..n -> ChainValues] } : n \in 1..MaxChain }

\* values of the inputs with several rules
ScopeValues ==
    { <<"x">>,
      <<>>,
      Ref("--a"), Ref("--b"),
      Ref("--u"),
      <<VAR, "--u", COMMA, SP, "y", RP>>,
      <<VAR, "--a", COMMA, SP, "y", RP>>,
      <<VAR, "--u", COMMA, SP, VAR, "--b", RP, RP>> }

\* the rules and properties of the inputs with several rules
Shapes ==
    { << <<":root", "--a">>, <<".t", "--a">>, <<".t", "--b">> >>,
      << <<".t", "--a">>, <<":root", "--b">>, <<".u", "--a">> >>,
      << <<":root", "--a">>, <<".t", "color">>, <<NoSelector, "color">> >>,
      << <<"[data-m=d]", "--a">>, <<"[data-m=d]", "color">>, <<":root", "color-scheme">> >>,
      << <<":root", "--a">>, <<".t", "--b">>, <<":root", "--a">> >>,
      << <<":root", "--a">>, <<":root", "--b">>, <<":root", "color">> >>,
      << <<NoSelector, "stroke-dasharray">>, <<":root", "--a">>,
         <<".t", "stroke-dashoffset">> >> }

ScopeInputs ==
    UNION { { [i \in 1..Len(sh) |-> Decl(i, sh[i][1], sh[i][2], vals[i])] :
                vals \in [1..Len(sh) -> ScopeValues] } : sh \in Shapes }

Inputs == ChainInputs \cup ScopeInputs

\* the options a caller passes, as the set of fields it gives: maxIterations
\* alone, or with logWarnings: false. Every run explored names its
\* maxIterations: under the default of 100 passes a cyclic scope whose values
\* grow is followed for 100 passes, beyond what is explored here.
UserOptions ==
    {[maxIterations |-> m] : m \in 1..MaxIter}
    \cup {[maxIterations |-> m, logWarnings |-> FALSE] : m \in 1..MaxIter}

MAX_ITERATIONS == 100
LOG_WARNINGS == TRUE

\* { ...defaultOptions, ..._options }
MergeOptions(o) ==
    [maxIterations |-> IF "maxIterations" \in DOMAIN o THEN o.maxIterations
                       ELSE MAX_ITERATIONS,
     logWarnings |-> IF "logWarnings" \in DOMAIN o THEN o.logWarnings
                     ELSE LOG_WARNINGS]

\* ------------------------------------------------------------------ state
VARIABLES
    processed,          \* the stylesheets the plugin instance processed before
    input,              \* the stylesheet as given (never changed by a run)
    options,            \* the merged options of the plugin instance
    tree,               \* result.root: the declarations, in document order
    selectorVarMap,     \* Map selector -> Map property -> value
    pc,                 \* where the run is
    cursor,             \* the next declaration the Declaration visitor gets
    scope,              \* the entry of selectorVarMap the for-of loop is at
    resolvedSomething,  \* of the current scope's while loop
    iterations,         \* of the current scope's while loop
    loops,              \* per finished scope: its selector and iterations
    warnings            \* the console.warn calls so far

vars == <<processed, input, options, tree, selectorVarMap, pc, cursor, scope,
          resolvedSomething, iterations, loops, warnings>>

Init ==
    /\ processed = <<>>
    /\ input \in Inputs
    /\ options \in {MergeOptions(o) : o \in UserOptions}
    /\ tree = input
    /\ selectorVarMap = <<>>
    /\ pc = "prepare"
    /\ cursor = 1
    /\ scope = 0
    /\ resolvedSomething = TRUE
    /\ iterations = 0
    /\ loops = <<>>
    /\ warnings = <<>>

\* prepare that keeps one selectorVarMap for the plugin instance
PrepareKeepingMap ==
    /\ pc = "prepare"
    /\ selectorVarMap' = selectorVarMap
    /\ tree' = ConvertRules(RemoveProps(tree))
    /\ cursor' = 1
    /\ pc' = "visit"
    /\ UNCHANGED <<processed, input, options, scope, resolvedSomething, iterations, loops, warnings>>

\* prepare(result): new map, removal of properties, selector conversion
Prepare ==
    /\ pc = "prepare"
    /\ selectorVarMap' = <<>>
    /\ tree' = ConvertRules(RemoveProps(tree))
    /\ cursor' = 1
    /\ pc' = "visit"
    /\ UNCHANGED <<processed, input, options, scope, resolvedSomething, iterations, loops, warnings>>

\* the Declaration visitor, called for each declaration in document order
Declaration ==
    /\ pc = "visit"
    /\ cursor <= Len(tree)
    /\ selectorVarMap' = Collect(selectorVarMap, tree[cursor])
    /\ cursor' = cursor + 1
    /\ UNCHANGED <<processed, input, options, tree, pc, scope, resolvedSomething, iterations,
                   loops, warnings>>

\* OnceExit is entered: the for-of loop over selectorVarMap starts
OnceExit ==
    /\ pc = "visit"
    /\ cursor > Len(tree)
    /\ IF selectorVarMap = <<>>
       THEN pc' = "writeback" /\ UNCHANGED <<scope, resolvedSomething, iterations>>
       ELSE pc' = "loop" /\ scope' = 1 /\ resolvedSomething' = TRUE /\ iterations' = 0
    /\ UNCHANGED <<processed, input, options, tree, selectorVarMap, cursor, loops, warnings>>

\* one iteration of `while (resolvedSomething && iterations < maxIterations)`
Pass ==
    /\ pc = "loop"
    /\ resolvedSomething /\ iterations < options.maxIterations
    /\ LET r == PassFrom(selectorVarMap, selectorVarMap[scope].key, 1, FALSE)
       IN  /\ selectorVarMap' = r.svm
           /\ resolvedSomething' = r.resolvedSomething
    /\ iterations' = iterations + 1
    /\ UNCHANGED <<processed, input, options, tree, pc, cursor, scope, loops, warnings>>

\* a loop exit whose cap test is `iterations > maxIterations`
LoopExitStrictCap ==
    /\ pc = "loop"
    /\ ~(resolvedSomething /\ iterations < options.maxIterations)
    /\ warnings' = IF iterations > options.maxIterations /\ options.logWarnings
                   THEN Append(warnings, CapWarning) ELSE warnings
    /\ loops' = Append(loops, [selector |-> selectorVarMap[scope].key,
                               iterations |-> iterations,
                               resolvedSomething |-> resolvedSomething])
    /\ IF scope < Len(selectorVarMap)
       THEN /\ scope' = scope + 1 /\ resolvedSomething' = TRUE /\ iterations' = 0
            /\ pc' = pc
       ELSE /\ pc' = "writeback"
            /\ UNCHANGED <<scope, resolvedSomething, iterations>>
    /\ UNCHANGED <<processed, input, options, tree, selectorVarMap, cursor>>

\* the while loop of the current scope ends: the cap test, then the next scope
LoopExit ==
    /\ pc = "loop"
    /\ ~(resolvedSomething /\ iterations < options.maxIterations)
    /\ warnings' = IF iterations >= options.maxIterations /\ options.logWarnings
                   THEN Append(warnings, CapWarning) ELSE warnings
    /\ loops' = Append(loops, [selector |-> selectorVarMap[scope].key,
                               iterations |-> iterations,
                               resolvedSomething |-> resolvedSomething])
    /\ IF scope < Len(selectorVarMap)
       THEN /\ scope' = scope + 1 /\ resolvedSomething' = TRUE /\ iterations' = 0
            /\ pc' = pc
       ELSE /\ pc' = "writeback"
            /\ UNCHANGED <<scope, resolvedSomething, iterations>>
    /\ UNCHANGED <<processed, input, options, tree, selectorVarMap, cursor>>

\* the write-back walkDecls
WriteBack ==
    /\ pc = "writeback"
    /\ tree' = WriteBackTree(tree, selectorVarMap)
    /\ pc' = "diagnose"
    /\ UNCHANGED <<processed, input, options, selectorVarMap, cursor, scope, resolvedSomething,
                   iterations, loops, warnings>>

\* the diagnostics walkDecls; OnceExit returns
Diagnose ==
    /\ pc = "diagnose"
    /\ warnings' = warnings \o TreeWarnings(selectorVarMap, tree, 1, options.logWarnings)
    /\ pc' = "done"
    /\ UNCHANGED <<processed, input, options, tree, selectorVarMap, cursor, scope,
                   resolvedSomething, iterations, loops>>

Next ==
    \/ Prepare
    \/ Declaration
    \/ OnceExit
    \/ Pass
    \/ LoopExit
    \/ WriteBack
    \/ Diagnose

Spec == Init /\ [][Next]_vars

\* --- one plugin instance processing several stylesheets, one after the other
\* the stylesheets given to such an instance
InstanceValues == { <<"x">>, Ref("--a"), Ref("--b") }

InstanceInputs ==
    { <<Decl(1, ":root", p, v), Decl(2, ".t", "color", w)>> :
        p \in {"--a", "--b"}, v \in InstanceValues, w \in InstanceValues }

InitInstance ==
    /\ processed = <<>>
    /\ input \in InstanceInputs
    /\ options \in {MergeOptions(o) : o \in UserOptions}
    /\ tree = input
    /\ selectorVarMap = <<>>
    /\ pc = "prepare"
    /\ cursor = 1
    /\ scope = 0
    /\ resolvedSomething = TRUE
    /\ iterations = 0
    /\ loops = <<>>
    /\ warnings = <<>>

\* postcss gives the instance its next stylesheet: the run of the previous
\* one has returned, and prepare(result) will be called with the new root.
\* warnings and loops are the records of one run and start empty.
NextStylesheet ==
    /\ pc = "done"
    /\ Len(processed) + 1 < MaxRuns
    /\ \E b \in InstanceInputs :
          /\ input' = b
          /\ tree' = b
    /\ processed' = Append(processed, input)
    /\ pc' = "prepare"
    /\ warnings' = <<>>
    /\ loops' = <<>>
    /\ UNCHANGED <<options, selectorVarMap, cursor, scope, resolvedSomething, iterations>>

NextInstance ==
    \/ Next
    \/ NextStylesheet

SpecInstance == InitInstance /\ [][NextInstance]_vars

TypeOK ==
    /\ pc \in {"prepare", "visit", "loop", "writeback", "diagnose", "done"}
    /\ iterations \in 0..options.maxIterations
    /\ cursor \in 1..(Len(tree) + 1)

\* ------------------------------------------------------------- properties
IsStyle(decl) == ~StartsWithDashDash(decl.prop)

Defined(svm, name) == \E o \in 1..Len(svm) : MapHas(svm[o].val, name)

Openers == {VAR, "f("}

RECURSIVE Closer(_, _, _)
\* the position of the ")" that closes a group open at depth `depth`, 0 if none
Closer(v, j, depth) ==
    IF j > Len(v) THEN 0
    ELSE IF v[j] \in Openers THEN Closer(v, j + 1, depth + 1)
    ELSE IF v[j] = RP THEN (IF depth = 1 THEN j ELSE Closer(v, j + 1, depth - 1))
    ELSE Closer(v, j + 1, depth)

RECURSIVE TopComma(_, _, _, _)
\* the first comma between j and e that is inside no inner group, 0 if none
TopComma(v, j, e, depth) ==
    IF j >= e THEN 0
    ELSE IF v[j] \in Openers THEN TopComma(v, j + 1, e, depth + 1)
    ELSE IF v[j] = RP THEN TopComma(v, j + 1, e, depth - 1)
    ELSE IF v[j] = COMMA /\ depth = 0 THEN j
    ELSE TopComma(v, j + 1, e, depth)

\* the reference that starts at position i (v[i] = "var(")
CssRefAt(v, i) ==
    LET e == Closer(v, i + 1, 1)
        c == IF e = 0 THEN 0 ELSE TopComma(v, i + 1, e, 0)
    IN  [ok |-> e /= 0,
         from |-> i,
         to |-> e,
         name |-> IF e = 0 THEN <<>>
                  ELSE Trim(SubSeq(v, i + 1, (IF c = 0 THEN e ELSE c) - 1)),
         hasFallback |-> c /= 0,
         fallback |-> IF c = 0 THEN <<>> ELSE SubSeq(v, c + 1, e - 1)]

RECURSIVE CssRefs(_, _)
\* the references of v from position i on, left to right, outermost only
CssRefs(v, i) ==
    IF i > Len(v) THEN <<>>
    ELSE IF v[i] = VAR /\ CssRefAt(v, i).ok
         THEN <<CssRefAt(v, i)>> \o CssRefs(v, CssRefAt(v, i).to + 1)
         ELSE CssRefs(v, i + 1)

Range(f) == {f[i] : i \in DOMAIN f}

ContainsVar(v) == VAR \in Range(v)

\* the stylesheet is one rule of custom properties, each declared once
SingleScope(t) ==
    /\ t /= <<>>
    /\ \A i \in 1..Len(t) : t[i].parent = t[1].parent /\ t[i].parent /= NoSelector
    /\ \A i \in 1..Len(t) : StartsWithDashDash(t[i].prop)
    /\ \A i, j \in 1..Len(t) : t[i].prop = t[j].prop => i = j

Props(t) == {t[i].prop : i \in 1..Len(t)}

ValueOf(t, prop) == t[CHOOSE i \in 1..Len(t) : t[i].prop = prop].value

\* the properties the value of prop refers to
Deps(t, prop) == {KeyOf(r.name) : r \in Range(CssRefs(ValueOf(t, prop), 1))}

RECURSIVE Reach(_, _, _)
\* the properties reached from the set ps in at most k reference steps
Reach(t, ps, k) ==
    IF k = 0 THEN ps
    ELSE Reach(t, ps \cup UNION {Deps(t, p) : p \in ps \cap Props(t)}, k - 1)

AllRefsDefined(t) == \A p \in Props(t) : Deps(t, p) \subseteq Props(t)

Acyclic(t) ==
    \A p \in Props(t) : p \notin Reach(t, Deps(t, p), Len(t))

RECURSIVE Inlined(_, _, _, _)
\* v from position i on, each reference replaced by the inlined value of the
\* property it names (fuel bounds the depth; an acyclic t needs Len(t))
Inlined(t, v, i, fuel) ==
    IF i > Len(v) THEN <<>>
    ELSE IF v[i] = VAR /\ CssRefAt(v, i).ok /\ fuel > 0
              /\ KeyOf(CssRefAt(v, i).name) \in Props(t)
         THEN Inlined(t, ValueOf(t, KeyOf(CssRefAt(v, i).name)), 1, fuel - 1)
              \o Inlined(t, v, CssRefAt(v, i).to + 1, fuel)
         ELSE <<v[i]>> \o Inlined(t, v, i + 1, fuel)

\* C2: in a single scope whose references all name properties of the scope,
\* without a cycle and with fewer properties than maxIterations, every
\* declaration ends with the text in which each reference is replaced by the
\* fully resolved value of the property it names, and with no var() left.
C2_ChainedResolution ==
    (/\ pc = "done"
     /\ SingleScope(input) /\ AllRefsDefined(input) /\ Acyclic(input)
     /\ Len(input) < options.maxIterations)
    => \A i \in 1..Len(tree) :
          /\ tree[i].value = Inlined(input, input[i].value, 1, Len(input))
          /\ ~ContainsVar(tree[i].value)

\* --- one pass of the resolution loop, as a step
PassStep == pc = "loop" /\ pc' = "loop" /\ iterations' = iterations + 1

\* the value is one reference and nothing else
WholeRef(v) == v /= <<>> /\ v[1] = VAR /\ CssRefAt(v, 1).ok /\ CssRefAt(v, 1).to = Len(v)

\* the value a property of the scope being resolved holds when a property
\* at position p of that scope reads it during the pass: the properties
\* before p were already rewritten by this pass
CurrentOwn(p, name) ==
    LET q == MapIndex(selectorVarMap[scope].val, name)
    IN  IF q < p THEN selectorVarMap'[scope].val[q].val
        ELSE selectorVarMap[scope].val[q].val

OtherScopesWith(name) ==
    {o \in 1..Len(selectorVarMap) : o /= scope /\ MapHas(selectorVarMap[o].val, name)}

\* C3: when a property of the scope S being resolved is a reference to a
\* name that S and some other scope both define, a pass replaces it by the
\* value S itself holds for the name at that moment, whichever scope was
\* collected first.
C3_ScopePriority ==
    [][PassStep =>
        \A p \in 1..Len(selectorVarMap[scope].val) :
            LET v == selectorVarMap[scope].val[p].val
                name == KeyOf(CssRefAt(v, 1).name)
            IN  (/\ WholeRef(v)
                 /\ MapHas(selectorVarMap[scope].val, name)
                 /\ OtherScopesWith(name) /= {})
                => selectorVarMap'[scope].val[p].val = CurrentOwn(p, name)]_vars

\* the second scope collected was resolved: its --b, a reference to --a,
\* now holds its own --a, which differs from the --a of the first scope
C3_Witness ==
    /\ pc = "done"
    /\ Len(selectorVarMap) = 2
    /\ MapHas(selectorVarMap[1].val, "--a")
    /\ MapHas(selectorVarMap[2].val, "--a")
    /\ MapHas(selectorVarMap[2].val, "--b")
    /\ \E i \in 1..Len(input) :
          input[i].prop = "--b" /\ input[i].value = Ref("--a")
    /\ MapGet(selectorVarMap[2].val, "--b") = MapGet(selectorVarMap[2].val, "--a")
    /\ MapGet(selectorVarMap[2].val, "--a") /= MapGet(selectorVarMap[1].val, "--a")

\* C4: a pass replaces a reference var(NAME, FALLBACK) of a custom property
\* by FALLBACK (without the blanks around it) exactly when no scope defines
\* NAME; when the scope itself or another scope defines NAME, it replaces it
\* by that defined value.
C4_FallbackPrecedence ==
    [][PassStep =>
        \A p \in 1..Len(selectorVarMap[scope].val) :
            LET v == selectorVarMap[scope].val[p].val
                r == CssRefAt(v, 1)
                name == KeyOf(r.name)
                after == selectorVarMap'[scope].val[p].val
            IN  (WholeRef(v) /\ r.hasFallback)
                => IF MapHas(selectorVarMap[scope].val, name)
                   THEN after = CurrentOwn(p, name)
                   ELSE IF OtherScopesWith(name) /= {}
                   THEN \E o \in OtherScopesWith(name) :
                           after = MapGet(selectorVarMap[o].val, name)
                   ELSE after = Trim(r.fallback)]_vars

\* --- warnings
CapWarnings == SelectSeq(warnings, LAMBDA w : w = CapWarning)

UndefinedWarnings == SelectSeq(warnings, LAMBDA w : w.kind = "Undefined variable")

\* the custom properties of the stylesheet are --a: var(--b); --b: var(--a);
\* in one rule
CycleScope(t) ==
    LET c == SelectSeq(t, LAMBDA d : StartsWithDashDash(d.prop))
    IN  /\ Len(c) = 2
        /\ c[1].parent = c[2].parent /\ c[1].parent /= NoSelector
        /\ c[1].prop = "--a" /\ c[1].value = Ref("--b")
        /\ c[2].prop = "--b" /\ c[2].value = Ref("--a")

\* the number of steps a run can still take, at most: 1 for the diagnostics,
\* 1 for the write-back, maxIterations passes and 1 loop exit for each scope
\* not yet resolved, 1 for each declaration not yet visited
StepsLeft ==
    LET perScope == options.maxIterations + 1
    IN  CASE pc = "done" -> 0
          [] pc = "diagnose" -> 1
          [] pc = "writeback" -> 2
          [] pc = "loop" -> 3 + (Len(selectorVarMap) - scope) * perScope
                              + (options.maxIterations - iterations)
          [] pc = "visit" -> 3 + Len(input) * perScope + (Len(tree) + 1 - cursor)
          [] pc = "prepare" -> 5 + Len(input) * perScope + Len(input)

\* the state has a step to take: the guards of the actions cover it
CanStep ==
    \/ pc = "prepare"
    \/ pc = "visit" /\ cursor \in 1..(Len(tree) + 1)
    \/ pc = "loop" /\ scope \in 1..Len(selectorVarMap)
    \/ pc = "writeback"
    \/ pc = "diagnose"

\* C5: with --a: var(--b); --b: var(--a); in a scope, for every
\* maxIterations of 1..MaxIter the run terminates: every step lowers the
\* bound StepsLeft on the steps that remain, and a state short of the end
\* always has a step to take.  The loop never makes more than maxIterations
\* passes, and at the end it has made maxIterations passes, one cap warning
\* was raised (none when logWarnings is false) and the declarations carry
\* the values of the table.
C5_CycleTermination ==
    /\ [][CycleScope(input) => StepsLeft' < StepsLeft]_vars
    /\ [](CycleScope(input) =>
            /\ StepsLeft >= 0
            /\ pc /= "done" => CanStep
            /\ iterations <= options.maxIterations)
    /\ [](CycleScope(input) /\ pc = "done" =>
            /\ Len(loops) = 1
            /\ loops[1].iterations = options.maxIterations
            /\ Len(CapWarnings) = (IF options.logWarnings THEN 1 ELSE 0)
            /\ \A i \in 1..Len(tree) :
                  StartsWithDashDash(tree[i].prop) =>
                     tree[i].value =
                        MapGet(MapGet(selectorVarMap, tree[i].parent), tree[i].prop))

\* the run of the cycle is over and the cap warning was raised
C5_Witness ==
    /\ pc = "done"
    /\ CycleScope(input)
    /\ options.maxIterations >= 2
    /\ warnings = <<CapWarning>>
    /\ \A i \in 1..Len(tree) :
          StartsWithDashDash(tree[i].prop) => tree[i].value = Ref("--a")

\* C6: a run raises the cap warning at most once, however many scopes fail
\* to converge.
C6_OneCapWarningPerRun == Len(CapWarnings) <= 1

\* the undefined-variable warnings the tree t calls for, from declaration i:
\* one per outermost reference without fallback whose name no scope defines
RECURSIVE ExpectedUndefined(_, _, _)
ExpectedUndefined(svm, t, i) ==
    IF i > Len(t) THEN <<>>
    ELSE LET refs == CssRefs(t[i].value, 1)
             bad == SelectSeq(refs, LAMBDA r :
                       ~r.hasFallback /\ ~Defined(svm, KeyOf(r.name)))
         IN  [k \in 1..Len(bad) |->
                 Warning("Undefined variable", bad[k].name,
                         IF t[i].parent = NoSelector THEN "unknown" ELSE t[i].parent)]
             \o ExpectedUndefined(svm, t, i + 1)

\* C7: with warnings logged, the diagnostics pass raises exactly one
\* undefined-variable warning for each reference, in a custom property or a
\* style declaration of the written-back tree, whose name no scope defines
\* and that has no fallback, naming the variable and the selector of the
\* declaration's rule, and no other; the pass changes no declaration.
C7_UndefinedWarnings ==
    /\ [](pc = "done" /\ options.logWarnings =>
            UndefinedWarnings = ExpectedUndefined(selectorVarMap, tree, 1))
    /\ [](pc /= "done" => UndefinedWarnings = <<>>)
    /\ [][pc = "diagnose" => tree' = tree]_vars

\* a style declaration color: var(--u) outside the scope that defines --a
\* got its warning, and its references to --a and with fallback got none
C7_Witness ==
    /\ pc = "done"
    /\ Len(UndefinedWarnings) = 1
    /\ Defined(selectorVarMap, "--a")
    /\ \E i, j \in 1..Len(tree) :
          /\ IsStyle(tree[i]) /\ tree[i].value = Ref("--u")
          /\ UndefinedWarnings[1] = Warning("Undefined variable", <<"--u">>, tree[i].parent)
          /\ IsStyle(tree[j]) /\ tree[j].value = Ref("--a")

\* C8: the cap warning is raised only for a loop that ends at the cap with
\* its last pass having made a substitution: a run all of whose loops end on
\* a pass that changed nothing raises none.
C8_CapWarningOnlyWhileChanging ==
    pc = "done" =>
        Len(CapWarnings) = Cardinality({k \in 1..Len(loops) :
                                         /\ loops[k].resolvedSomething
                                         /\ loops[k].iterations >= options.maxIterations
                                         /\ options.logWarnings})

\* every loop of the run ended on a pass that changed nothing
EndedAtFixedPoint ==
    /\ pc \in {"writeback", "diagnose", "done"}
    /\ \A k \in 1..Len(loops) : ~loops[k].resolvedSomething

\* C9: after a run that ended at a fixed point, a pass over any scope of the
\* resulting table makes no substitution and changes no value, so a second
\* resolution stops each loop after its first pass.
C9_Idempotence ==
    EndedAtFixedPoint =>
        \A s \in 1..Len(selectorVarMap) :
            PassFrom(selectorVarMap, selectorVarMap[s].key, 1, FALSE)
                = [svm |-> selectorVarMap, resolvedSomething |-> FALSE]

\* a run of two scopes ended at a fixed point after rewriting a value in
\* more than one pass
C9_Witness ==
    /\ pc = "done"
    /\ EndedAtFixedPoint
    /\ Len(loops) = 2
    /\ \E k \in 1..2 : loops[k].iterations >= 3
    /\ \E i \in 1..Len(tree) : tree[i].value /= input[tree[i].id].value

\* C10: the tree at the end of a run is a function of the stylesheet and of
\* maxIterations alone, the same with logWarnings false as with logWarnings
\* true, and a run with logWarnings false raises no warning of either kind.
C10_LogWarningsOnlyDiagnostics ==
    /\ pc = "done" => tree = RunTree(input, options.maxIterations)
    /\ ~options.logWarnings => warnings = <<>>

\* a run with logWarnings false is over: it hit the cap, left an undefined
\* reference without fallback, and rewrote a declaration
C10_Witness ==
    /\ pc = "done"
    /\ ~options.logWarnings
    /\ \E k \in 1..Len(loops) :
          loops[k].resolvedSomething /\ loops[k].iterations = options.maxIterations
    /\ ExpectedUndefined(selectorVarMap, tree, 1) /= <<>>
    /\ \E i \in 1..Len(tree) : tree[i].value /= input[tree[i].id].value


\* the value the table holds for the scope and the name of a declaration
TableValue(decl) == MapGet(MapGet(selectorVarMap, GetSelector(decl)), decl.prop)

\* C11: after the run every custom-property declaration of the tree has as
\* its value the final value of the table for its rule's selector and its
\* name, whatever that value is: the empty string, or a value still holding
\* references when the loop ended at the cap.
C11_WriteBack ==
    pc \in {"diagnose", "done"} =>
        \A i \in 1..Len(tree) :
            StartsWithDashDash(tree[i].prop) => tree[i].value = TableValue(tree[i])

\* --- declarations of one name in one scope
SameScopeAndName(d, e) == d.parent = e.parent /\ d.prop = e.prop

\* the declaration at position i is the last of its scope and name
LastOfItsName(t, i) ==
    \A j \in 1..Len(t) : SameScopeAndName(t[i], t[j]) => j <= i

\* C12: rules with the same selector share a scope.  Once the declarations
\* are collected, the table holds for each scope and name the value of the
\* last declaration of that name in the rules with that selector; after
\* write-back all declarations of one selector and name have one value.
C12_LastDeclarationWins ==
    /\ (pc = "loop" /\ scope = 1 /\ iterations = 0) =>
          \A i \in 1..Len(tree) :
              (StartsWithDashDash(tree[i].prop) /\ LastOfItsName(tree, i))
                  => TableValue(tree[i]) = tree[i].value
    /\ pc \in {"diagnose", "done"} =>
          \A i, j \in 1..Len(tree) :
              (StartsWithDashDash(tree[i].prop) /\ SameScopeAndName(tree[i], tree[j]))
                  => tree[i].value = tree[j].value


\* the scopes and names of the table are those the declarations of t declare
TableOf(svm, t) ==
    \A o \in 1..Len(svm) : \A q \in 1..Len(svm[o].val) :
        \E i \in 1..Len(t) :
            GetSelector(t[i]) = svm[o].key /\ t[i].prop = svm[o].val[q].key

\* C13: when a plugin instance has processed a stylesheet A and then
\* processes B, the tree and the warnings at the end of B's run are those of
\* a run on B alone, and while B is resolved and diagnosed the table holds
\* only scopes and names that B declares.
C13_NoStateAcrossRuns ==
    /\ (pc = "done" /\ processed /= <<>>) =>
          /\ tree = RunTree(input, options.maxIterations)
          /\ warnings = RunWarnings(input, options)
    /\ (pc \in {"visit", "loop", "writeback", "diagnose", "done"} /\ processed /= <<>>) =>
          TableOf(selectorVarMap, tree)

\* A defined --a; B, processed next, refers to --a in its --b and in a style
\* declaration without defining it: both references are left and reported
C13_Witness ==
    /\ pc = "done"
    /\ Len(processed) = 1
    /\ processed[1][1].prop = "--a" /\ processed[1][1].value = <<"x">>
    /\ input[1].prop = "--b" /\ input[1].value = Ref("--a")
    /\ input[2].value = Ref("--a")
    /\ tree = input
    /\ Len(UndefinedWarnings) = 2


\* the three properties the plugin is documented to remove
Removed(prop) == prop \in {"color-scheme", "stroke-dasharray", "stroke-dashoffset"}

\* the declarations of t with any other property, in document order
Kept(t) == SelectSeq(t, LAMBDA d : ~Removed(d.prop))

\* C14: from the end of prepare on, no declaration of the tree has the
\* property color-scheme, stroke-dasharray or stroke-dashoffset, under a rule
\* or not; the declarations with any other property are all there, in their
\* order; and the table has no entry for a removed declaration.
C14_PropertyRemoval ==
    pc /= "prepare" =>
        /\ \A i \in 1..Len(tree) : ~Removed(tree[i].prop)
        /\ Len(tree) = Len(Kept(input))
        /\ \A k \in 1..Len(tree) :
              /\ tree[k].id = Kept(input)[k].id
              /\ tree[k].prop = Kept(input)[k].prop
        /\ \A o \in 1..Len(selectorVarMap) : \A q \in 1..Len(selectorVarMap[o].val) :
              /\ ~Removed(selectorVarMap[o].val[q].key)
              /\ \E k \in 1..Len(tree) :
                    /\ GetSelector(tree[k]) = selectorVarMap[o].key
                    /\ tree[k].prop = selectorVarMap[o].val[q].key

\* a stroke-dasharray outside any rule and a stroke-dashoffset in a rule were
\* removed, and the custom property between them is what is left
C14_Witness ==
    /\ pc = "done"
    /\ Len(input) = 3
    /\ input[1].prop = "stroke-dasharray" /\ input[1].parent = NoSelector
    /\ input[3].prop = "stroke-dashoffset"
    /\ Len(tree) = 1 /\ tree[1].id = 2
    /\ Defined(selectorVarMap, "--a")


\* C15: when a property of the scope being resolved is a reference to a name
\* that the scope does not define and that two or more other scopes define,
\* a pass replaces it by the value that the first of those scopes, in the
\* order the scopes were collected, holds at that moment.
C15_CrossScopeLookup ==
    [][PassStep =>
        \A p \in 1..Len(selectorVarMap[scope].val) :
            LET v == selectorVarMap[scope].val[p].val
                name == KeyOf(CssRefAt(v, 1).name)
                others == OtherScopesWith(name)
                first == CHOOSE o \in others : \A q \in others : o <= q
            IN  (/\ WholeRef(v)
                 /\ ~MapHas(selectorVarMap[scope].val, name)
                 /\ Cardinality(others) >= 2)
                => selectorVarMap'[scope].val[p].val
                      = MapGet(selectorVarMap[first].val, name)]_vars

\* .t { --a: var(--u, y) } :root { --b: var(--a) } .u { --a: x }: the --b of
\* :root got the y that .t, collected first, held once resolved
C15_Witness ==
    /\ pc = "done"
    /\ Len(input) = 3
    /\ input[1].parent = ".t" /\ input[1].value = <<VAR, "--u", COMMA, SP, "y", RP>>
    /\ input[2].parent = ":root" /\ input[2].value = Ref("--a")
    /\ input[3].parent = ".u" /\ input[3].value = <<"x">>
    /\ tree[2].value = <<"y">>


\* the reference has no fallback and names a property that no scope defines
PlainUndefined(svm, r) == ~r.hasFallback /\ ~Defined(svm, KeyOf(r.name))

\* every reference of the value, if it has any, is of that kind
OnlyPlainUndefined(svm, v) ==
    \A r \in Range(CssRefs(v, 1)) : PlainUndefined(svm, r)

\* C16: a pass does not rewrite a reference without fallback whose name no
\* scope defines.  A value whose references are all of this kind is left as
\* it is; when the first reference of a value is of this kind, the value is
\* unchanged up to the end of that reference, whatever happens to the
\* references after it; and a pass over a scope in which no value has any
\* other kind of reference ends with resolvedSomething false.
C16_UndefinedLeftAlone ==
    [][PassStep =>
        LET varMap == selectorVarMap[scope].val
            after == selectorVarMap'[scope].val
        IN  /\ \A p \in 1..Len(varMap) :
                  LET v == varMap[p].val
                      refs == CssRefs(v, 1)
                  IN  /\ OnlyPlainUndefined(selectorVarMap, v) => after[p].val = v
                      /\ (refs /= <<>> /\ PlainUndefined(selectorVarMap, refs[1]))
                            => SubSeq(after[p].val, 1, refs[1].to) = SubSeq(v, 1, refs[1].to)
            /\ (\A p \in 1..Len(varMap) : OnlyPlainUndefined(selectorVarMap, varMap[p].val))
                  => ~resolvedSomething']_vars

\* --b: var(--u) var(--a) ended as var(--u) x: the reference to --a was
\* replaced and the one to the undefined --u is still there
C16_Witness ==
    /\ pc = "done"
    /\ \E i \in 1..Len(tree) :
          /\ input[i].value = <<VAR, "--u", RP, SP, VAR, "--a", RP>>
          /\ tree[i].value = <<VAR, "--u", RP, SP, "x">>
    /\ \E k \in 1..Len(loops) : ~loops[k].resolvedSomething


\* C17: when a property of the scope being resolved is a reference
\* var(NAME, FALLBACK) whose NAME no scope defines, a pass replaces the
\* whole reference by the text of FALLBACK exactly as written after the
\* comma, blanks included, the references inside it left as they are.
C17_FallbackVerbatim ==
    [][PassStep =>
        \A p \in 1..Len(selectorVarMap[scope].val) :
            LET v == selectorVarMap[scope].val[p].val
                r == CssRefAt(v, 1)
            IN  (/\ WholeRef(v)
                 /\ r.hasFallback
                 /\ ~Defined(selectorVarMap, KeyOf(r.name)))
                => selectorVarMap'[scope].val[p].val = r.fallback]_vars


\* C18: in a single scope of n properties whose references all name
\* properties of the scope and form no cycle, whatever the order of the
\* declarations, the loop ends on a pass that changed nothing after at most
\* n + 1 passes when maxIterations allows that many, and with maxIterations
\* above n + 1 no cap warning is raised.
C18_AcyclicConvergence ==
    (/\ pc = "done"
     /\ SingleScope(input) /\ AllRefsDefined(input) /\ Acyclic(input))
    => /\ Len(loops) = 1
       /\ options.maxIterations >= Len(input) + 1 =>
             /\ loops[1].iterations <= Len(input) + 1
             /\ ~loops[1].resolvedSomething
       /\ options.maxIterations > Len(input) + 1 => CapWarnings = <<>>

\* --a: var(--b); --b: var(--c); --c: x, each property declared before the
\* one it refers to: two passes rewrite, the third changes nothing
C18_Witness ==
    /\ pc = "done"
    /\ Len(input) = 3
    /\ input[1].value = Ref("--b") /\ input[2].value = Ref("--c")
    /\ input[3].value = <<"x">>
    /\ options.maxIterations = 4
    /\ loops[1].iterations = 3
    /\ \A i \in 1..3 : tree[i].value = <<"x">>
    /\ warnings = <<>>


\* the declaration at position j of the tree is the last of its scope and
\* name and was given as NAME: var(NAME)
SelfReference(j) ==
    /\ StartsWithDashDash(tree[j].prop)
    /\ LastOfItsName(tree, j)
    /\ input[tree[j].id].value = Ref(tree[j].prop)

\* C19: a substitution counts as a change even when it puts back the same
\* text.  In a scope holding --a: var(--a), every pass ends with
\* resolvedSomething true, the loop makes exactly maxIterations passes, the
\* cap warning is raised (when warnings are logged), and the property still
\* has the value var(--a) in the table and in the tree.
C19_SelfReferenceRunsToCap ==
    /\ [][(PassStep /\ \E j \in 1..Len(tree) :
                          /\ SelfReference(j)
                          /\ GetSelector(tree[j]) = selectorVarMap[scope].key)
             => resolvedSomething']_vars
    /\ [](pc = "done" =>
            \A j \in 1..Len(tree) :
                SelfReference(j) =>
                    /\ \E k \in 1..Len(loops) :
                          /\ loops[k].selector = GetSelector(tree[j])
                          /\ loops[k].iterations = options.maxIterations
                          /\ loops[k].resolvedSomething
                    /\ options.logWarnings => CapWarnings /= <<>>
                    /\ TableValue(tree[j]) = Ref(tree[j].prop)
                    /\ tree[j].value = Ref(tree[j].prop))

\* :root { --a: var(--a) } alone, run with maxIterations 3 or more
C19_Witness ==
    /\ pc = "done"
    /\ Len(input) = 1
    /\ input[1].value = Ref("--a")
    /\ options.maxIterations >= 3
    /\ loops = <<[selector |-> ":root", iterations |-> options.maxIterations,
                  resolvedSomething |-> TRUE]>>
    /\ warnings = <<CapWarning>>
    /\ tree[1].value = Ref("--a")

====
